---------------------------- MODULE Spec2Model ----------------------------
(***************************************************************************)
(* go-recordtrie: a read-only multi-valued key/value store layered on a    *)
(* marisa trie.  Byte strings are sequences of byte values; a Record is    *)
(* [Key, Value]; the store's trie is held as the sequence of its distinct  *)
(* keys in the order the engine's predictive search enumerates them.       *)
(***************************************************************************)
EXTENDS Integers, Sequences, FiniteSets

VARIABLES
    records,   \* the []Record handed to New
    pc,        \* "unbuilt" | "built" | "panicked"
    t,         \* RecordTrie.t of the store made by New
    files,     \* the file system: path -> NoFile | Corrupt | a saved trie
    loaded,    \* the (r, err) last returned by NewFromFile, or NotLoaded
    agent,     \* the marisa.Agent of the last iter call, as iter left it
    call,      \* the last public call: [op, on, arg, ret]
    enc        \* key codec exerciser: [step, key, value, trieKey, k, v]

vars == <<records, pc, t, files, loaded, agent, call, enc>>

----------------------------------------------------------------------------
(* Bounds and input domains *)

MaxRecords == 3
MaxBadRecords == 2
MaxSavedRecords == 2
MaxCodecLen == 3

SentinelByte == 255

Bytes == {1, 2, SentinelByte}

KV_SEPARATOR == <<SentinelByte>>

\* keys offered to New: "a", "ab", "b", and with them the malformed "a\xFF"
ValidKeys == {<<1>>, <<1, 2>>, <<2>>}
Keys == ValidKeys \cup {<<1, SentinelByte>>}

\* values offered to New: "", "a", "\xFF"
Values == {<<>>, <<1>>, <<SentinelByte>>}

\* arguments offered to Exists, Find and KeysStartingWith
Queries == {<<>>, <<1>>, <<1, 2>>, <<2>>, <<1, SentinelByte>>}

Paths == {"p"}

ValidRecordDomain == [Key : ValidKeys, Value : Values]
RecordDomain == [Key : Keys, Value : Values]

RECURSIVE SeqsUpTo(_, _)
SeqsUpTo(S, n) ==
    IF n = 0 THEN {<<>>}
    ELSE LET shorter == SeqsUpTo(S, n - 1)
         IN  shorter \cup {Append(s, x) : s \in shorter, x \in S}

----------------------------------------------------------------------------
(* Byte-string helpers *)

HasSentinel(s) == \E i \in 1..Len(s) : s[i] = SentinelByte

StartsWith(s, p) == Len(p) <= Len(s) /\ SubSeq(s, 1, Len(p)) = p

\* strings.Index(s, KV_SEPARATOR): 1-based, 0 when absent
RECURSIVE IndexFrom(_, _)
IndexFrom(s, i) ==
    IF i > Len(s) THEN 0
    ELSE IF s[i] = SentinelByte THEN i
    ELSE IndexFrom(s, i + 1)

\* a wrong split point: the last separator instead of the first
RECURSIVE LastIndexFrom(_, _)
LastIndexFrom(s, i) ==
    IF i < 1 THEN 0
    ELSE IF s[i] = SentinelByte THEN i
    ELSE LastIndexFrom(s, i - 1)

SplitAtLast(s) == LastIndexFrom(s, Len(s))

SplitPoint(s) == IndexFrom(s, 1)

\* strings.SplitN(s, KV_SEPARATOR, 2)
SplitN2(s) ==
    LET i == SplitPoint(s)
    IN  IF i = 0 THEN <<s>>
        ELSE <<SubSeq(s, 1, i - 1), SubSeq(s, i + 1, Len(s))>>

----------------------------------------------------------------------------
(* Key codec *)

\* a wrong encoding: value and key swapped around the separator
buildTrieKeySwapped(key, value) == value \o KV_SEPARATOR \o key

buildTrieKey(key, value) == key \o KV_SEPARATOR \o value

splitTrieKey(trieKey) ==
    LET pieces == SplitN2(trieKey)
    IN  IF Len(pieces) < 2
        THEN [k |-> pieces[1], v |-> <<>>]
        ELSE [k |-> pieces[1], v |-> pieces[2]]


----------------------------------------------------------------------------
(* The trie engine (github.com/1player/go-marisa) as the store uses it.    *)
(* marisa builds a trie over the distinct keys of the keyset; each node's  *)
(* children are ordered by descending weight (every pushed key weighs 1,   *)
(* repeated keys add up), ties by ascending byte; predictive search walks  *)
(* the subtrie below the query depth-first, a node before its children.    *)
(* Example's expected output (peach pear apple; fruits before foods) is    *)
(* this order.                                                             *)

NewKeyset == <<>>

PushBackString(ks, trieKey) == Append(ks, trieKey)

NewTrie == [order |-> <<>>]

Weight(ks, p) == Cardinality({i \in DOMAIN ks : StartsWith(ks[i], p)})

ChildBytes(ks, p) ==
    {ks[i][Len(p) + 1] :
        i \in {j \in DOMAIN ks : StartsWith(ks[j], p) /\ Len(ks[j]) > Len(p)}}

Heaviest(ks, p, S) ==
    CHOOSE b \in S : \A c \in S \ {b} :
        \/ Weight(ks, Append(p, b)) > Weight(ks, Append(p, c))
        \/ /\ Weight(ks, Append(p, b)) = Weight(ks, Append(p, c))
           /\ b < c

RECURSIVE Subtrie(_, _), Siblings(_, _, _)
Subtrie(ks, p) ==
    (IF \E i \in DOMAIN ks : ks[i] = p THEN <<p>> ELSE <<>>)
        \o Siblings(ks, p, ChildBytes(ks, p))

Siblings(ks, p, S) ==
    IF S = {} THEN <<>>
    ELSE LET b == Heaviest(ks, p, S)
         IN  Subtrie(ks, Append(p, b)) \o Siblings(ks, p, S \ {b})

\* marisa.Trie.Build
Build(ks) == [order |-> Subtrie(ks, <<>>)]

NewAgent == [query |-> <<>>, pos |-> 0, status |-> "ready", key |-> <<>>]

SetQueryString(a, query) ==
    [a EXCEPT !.query = query, !.pos = 0, !.status = "ready"]

\* marisa.Trie.PredictiveSearch: the next match after the agent's position
PredictiveSearch(tr, a) ==
    LET nexts == {i \in (a.pos + 1)..Len(tr.order) :
                      StartsWith(tr.order[i], a.query)}
    IN  IF a.status = "end" \/ nexts = {}
        THEN [ok |-> FALSE, agent |-> [a EXCEPT !.status = "end"]]
        ELSE LET i == CHOOSE j \in nexts : \A m \in nexts : j <= m
             IN  [ok |-> TRUE,
                  agent |-> [a EXCEPT !.pos = i, !.status = "searching",
                                      !.key = tr.order[i]]]

----------------------------------------------------------------------------
(* Record store *)

\* ks := marisa.NewKeyset(); ks.PushBackString(trieKey) for each record
RECURSIVE buildKeyset(_)
buildKeyset(recs) ==
    IF recs = <<>> THEN NewKeyset
    ELSE PushBackString(buildKeyset(SubSeq(recs, 1, Len(recs) - 1)),
                        buildTrieKey(recs[Len(recs)].Key, recs[Len(recs)].Value))

\* a wrong build: the last record never reaches the keyset
buildDropLast(recs) ==
    Build(buildKeyset(SubSeq(recs, 1, Len(recs) - 1)))

build(recs) == Build(buildKeyset(recs))

\* the callbacks Exists, Find, KeysStartingWith and Records hand to iter
iterFunc(op, acc, k, v) ==
    CASE op = "Exists"           -> [acc |-> TRUE, cont |-> FALSE]
      [] op = "Find"             -> [acc |-> Append(acc, v), cont |-> TRUE]
      [] op = "KeysStartingWith" -> [acc |-> Append(acc, k), cont |-> TRUE]
      [] op = "Records"          ->
            [acc |-> Append(acc, [Key |-> k, Value |-> v]), cont |-> TRUE]

\* exists := false; var values, keys, records (nil slices)
iterInit(op) == IF op = "Exists" THEN FALSE ELSE <<>>

\* an agent kept from the previous call instead of a new one
iterAgentStale(query) == agent

iterAgent(query) == SetQueryString(NewAgent, query)

RECURSIVE iterLoop(_, _, _, _)
iterLoop(tr, a, op, acc) ==
    LET s == PredictiveSearch(tr, a)
    IN  IF ~s.ok THEN [acc |-> acc, agent |-> s.agent]
        ELSE LET kv == splitTrieKey(s.agent.key)
                 r  == iterFunc(op, acc, kv.k, kv.v)
             IN  IF ~r.cont THEN [acc |-> r.acc, agent |-> s.agent]
                 ELSE iterLoop(tr, s.agent, op, r.acc)

iter(tr, query, op) == iterLoop(tr, iterAgent(query), op, iterInit(op))

\* wrong search prefixes
existsQueryRaw(key) == key
findQueryRaw(key) == key
keysQueryTerminated(keyPrefix) == buildTrieKey(keyPrefix, <<>>)

existsQuery(key) == buildTrieKey(key, <<>>)
findQuery(key) == buildTrieKey(key, <<>>)
keysQuery(keyPrefix) == keyPrefix
recordsQuery == <<>>

Exists(tr, key) == iter(tr, existsQuery(key), "Exists")
Find(tr, key) == iter(tr, findQuery(key), "Find")
KeysStartingWith(tr, keyPrefix) == iter(tr, keysQuery(keyPrefix), "KeysStartingWith")
Records(tr) == iter(tr, recordsQuery, "Records")

----------------------------------------------------------------------------
(* Persistence *)

NoFile == [kind |-> "absent"]
Corrupt == [kind |-> "corrupt"]
NotLoaded == [state |-> "none"]

\* what marisa.Trie.Save leaves at path
SavedImage(tr) == [kind |-> "trie", order |-> tr.order]

\* a load that never maps the file
MmapSkipped(path) == NewTrie

\* marisa.Trie.Mmap on a valid file
Mmap(path) == [order |-> files[path].order]

Mapped(path) ==
    loaded # NotLoaded /\ ~loaded.err /\ loaded.path = path

Stores == {"new", "file"}

Available(on) ==
    \/ on = "new" /\ pc = "built"
    \/ on = "file" /\ pc # "panicked" /\ loaded # NotLoaded /\ ~loaded.err

StoreTrie(on) == IF on = "new" THEN t ELSE loaded.t

----------------------------------------------------------------------------
(* Initial states and actions *)

NoCall ==
    [op |-> "none", on |-> "none", arg |-> <<>>, ret |-> FALSE,
     stopped |-> FALSE, afterStopped |-> FALSE]
EncIdle == [step |-> "idle"]

InitStore(inputs) ==
    /\ records \in inputs
    /\ pc = "unbuilt"
    /\ t = NewTrie
    /\ files = [p \in Paths |-> NoFile]
    /\ loaded = NotLoaded
    /\ agent = NewAgent
    /\ call = NoCall
    /\ enc = EncIdle

Init ==
    InitStore(SeqsUpTo(ValidRecordDomain, MaxRecords)
                  \cup SeqsUpTo(RecordDomain, MaxBadRecords))

InitPersist == InitStore(SeqsUpTo(ValidRecordDomain, MaxSavedRecords))

\* New(records); a fault of the engine inside Build is not recovered
New ==
    /\ pc = "unbuilt"
    /\ \E fault \in BOOLEAN :
          IF fault
          THEN /\ pc' = "panicked"
               /\ UNCHANGED t
          ELSE /\ pc' = "built"
               /\ t' = build(records)
    /\ call' = [NoCall EXCEPT !.op = "New", !.on = "new"]
    /\ UNCHANGED <<records, files, loaded, agent, enc>>

\* a public query; call.stopped records that its iteration broke off with
\* matches left, call.afterStopped that the call before it did
Query(op, on, arg, out) ==
    /\ Available(on)
    /\ call' = [op |-> op, on |-> on, arg |-> arg, ret |-> out.acc,
                stopped |-> /\ out.agent.status = "searching"
                            /\ PredictiveSearch(StoreTrie(on), out.agent).ok,
                afterStopped |-> call.stopped]
    /\ agent' = out.agent
    /\ UNCHANGED <<records, pc, t, files, loaded, enc>>

ExistsCall(on) ==
    \E key \in Queries :
        Query("Exists", on, key, Exists(StoreTrie(on), key))

FindCall(on) ==
    \E key \in Queries :
        Query("Find", on, key, Find(StoreTrie(on), key))

KeysStartingWithCall(on) ==
    \E keyPrefix \in Queries :
        Query("KeysStartingWith", on, keyPrefix,
              KeysStartingWith(StoreTrie(on), keyPrefix))

RecordsCall(on) ==
    Query("Records", on, <<>>, Records(StoreTrie(on)))

\* r.Save(path): a fault of the engine is recovered into err.  The caller
\* does not write a file that a live store has mapped.
Save ==
    \E on \in Stores, path \in Paths, fault \in BOOLEAN :
        /\ Available(on)
        /\ ~Mapped(path)
        /\ files' = [files EXCEPT ![path] =
                        IF fault THEN Corrupt ELSE SavedImage(StoreTrie(on))]
        /\ call' = [NoCall EXCEPT !.op = "Save", !.on = on, !.arg = path,
                                   !.ret = fault]
        /\ UNCHANGED <<records, pc, t, loaded, agent, enc>>

\* NewFromFile(path): Mmap panics on a missing or invalid file; the panic
\* is recovered into err and r stays the empty trie made before Mmap
NewFromFile ==
    \E path \in Paths :
        /\ pc # "panicked"
        /\ LET fault == files[path].kind # "trie"
           IN  /\ loaded' = [state |-> "returned",
                             t |-> IF fault THEN NewTrie ELSE Mmap(path),
                             err |-> fault, path |-> path]
               /\ call' = [NoCall EXCEPT !.op = "NewFromFile", !.on = "file",
                                          !.arg = path, !.ret = fault]
        /\ UNCHANGED <<records, pc, t, files, agent, enc>>

ExistsNew == ExistsCall("new")
FindNew == FindCall("new")
KeysStartingWithNew == KeysStartingWithCall("new")
RecordsNew == RecordsCall("new")

Next ==
    \/ New
    \/ ExistsNew
    \/ FindNew
    \/ KeysStartingWithNew
    \/ RecordsNew

Spec == Init /\ [][Next]_vars

ExistsAny == \E on \in Stores : ExistsCall(on)
FindAny == \E on \in Stores : FindCall(on)
KeysStartingWithAny == \E on \in Stores : KeysStartingWithCall(on)
RecordsAny == \E on \in Stores : RecordsCall(on)

NextPersist ==
    \/ New
    \/ Save
    \/ NewFromFile
    \/ ExistsAny
    \/ FindAny
    \/ KeysStartingWithAny
    \/ RecordsAny

SpecPersist == InitPersist /\ [][NextPersist]_vars

----------------------------------------------------------------------------
(* The key codec on its own: buildTrieKey and splitTrieKey applied to      *)
(* every key and value, and splitTrieKey to every byte string, up to       *)
(* MaxCodecLen bytes.                                                      *)

CodecStrings == SeqsUpTo(Bytes, MaxCodecLen)

InitCodec ==
    /\ records = <<>>
    /\ pc = "unbuilt"
    /\ t = NewTrie
    /\ files = [p \in Paths |-> NoFile]
    /\ loaded = NotLoaded
    /\ agent = NewAgent
    /\ call = NoCall
    /\ \/ \E key \in CodecStrings, value \in CodecStrings :
             enc = [step |-> "pair", key |-> key, value |-> value]
       \/ \E s \in CodecStrings :
             enc = [step |-> "raw", trieKey |-> s]

Encode ==
    /\ enc.step = "pair"
    /\ enc' = [step |-> "encoded", key |-> enc.key, value |-> enc.value,
               trieKey |-> buildTrieKey(enc.key, enc.value)]
    /\ UNCHANGED <<records, pc, t, files, loaded, agent, call>>

Decode ==
    /\ enc.step \in {"encoded", "raw"}
    /\ LET kv == splitTrieKey(enc.trieKey)
       IN  enc' = [step |-> "decoded", from |-> enc, k |-> kv.k, v |-> kv.v]
    /\ UNCHANGED <<records, pc, t, files, loaded, agent, call>>

NextCodec == Encode \/ Decode

SpecCodec == InitCodec /\ [][NextCodec]_vars

----------------------------------------------------------------------------
(* Vocabulary of the properties *)

ValidRecords(recs) == \A i \in DOMAIN recs : ~HasSentinel(recs[i].Key)

Range(seq) == {seq[i] : i \in DOMAIN seq}

Count(seq, x) == Cardinality({i \in DOMAIN seq : seq[i] = x})

SameBag(a, b) ==
    /\ Len(a) = Len(b)
    /\ \A x \in Range(a) \cup Range(b) : Count(a, x) = Count(b, x)

\* byte-wise lexicographic order
LexLess(a, b) ==
    \E i \in 1..(Len(a) + 1) :
        /\ i <= Len(b)
        /\ \A j \in 1..(i - 1) : a[j] = b[j]
        /\ (i > Len(a) \/ a[i] < b[i])

LexLeq(a, b) == a = b \/ LexLess(a, b)

RecordLeq(r1, r2) ==
    \/ LexLess(r1.Key, r2.Key)
    \/ r1.Key = r2.Key /\ LexLeq(r1.Value, r2.Value)

Ascending(seq) == \A i \in 1..(Len(seq) - 1) : LexLeq(seq[i], seq[i + 1])

AscendingRecords(seq) ==
    \A i \in 1..(Len(seq) - 1) : RecordLeq(seq[i], seq[i + 1])

ValuesOf(seq) == [i \in DOMAIN seq |-> seq[i].Value]
KeysOf(seq) == [i \in DOMAIN seq |-> seq[i].Key]

\* the records of R (as a set: each distinct pair once) that satisfy a test
Matching(Test(_)) == {r \in Range(records) : Test(r)}

\* the engine's enumeration order stated pairwise on two distinct composite
\* keys x, y: at the first byte where they part, a key comes before its
\* extensions, the branch holding more records of R comes first, and of
\* two branches holding equally many the one with the smaller byte does
RecordWeight(p) ==
    Cardinality({i \in DOMAIN records :
        StartsWith(records[i].Key \o KV_SEPARATOR \o records[i].Value, p)})

EngineBefore(x, y) ==
    LET j == CHOOSE n \in 1..(Len(x) + 1) :
                 /\ \A m \in 1..(n - 1) : m <= Len(y) /\ x[m] = y[m]
                 /\ (n > Len(x) \/ n > Len(y) \/ x[n] # y[n])
    IN  IF j > Len(x) THEN TRUE
        ELSE IF j > Len(y) THEN FALSE
        ELSE LET wx == RecordWeight(SubSeq(x, 1, j))
                 wy == RecordWeight(SubSeq(y, 1, j))
             IN  wx > wy \/ (wx = wy /\ x[j] < y[j])

CompositeOf(r) == r.Key \o KV_SEPARATOR \o r.Value

RECURSIVE EngineSorted(_)
EngineSorted(S) ==
    IF S = {} THEN <<>>
    ELSE LET first == CHOOSE r \in S : \A q \in S \ {r} :
                          EngineBefore(CompositeOf(r), CompositeOf(q))
         IN  <<first>> \o EngineSorted(S \ {first})

OnNew(op) == call.op = op /\ call.on = "new"

----------------------------------------------------------------------------
(* C8, C9: the key codec *)

\* C8: for every key without the sentinel byte and every value (the empty
\* value and values holding sentinel bytes included),
\* splitTrieKey(buildTrieKey(key, value)) is exactly (key, value).
C8_RoundTrip ==
    (enc.step = "decoded" /\ enc.from.step = "encoded"
        /\ ~HasSentinel(enc.from.key))
    => (enc.k = enc.from.key /\ enc.v = enc.from.value)

C8_Witness ==
    /\ enc.step = "decoded"
    /\ enc.from.step = "encoded"
    /\ enc.from.key = <<1, 2>>
    /\ enc.from.value = <<SentinelByte, 1, SentinelByte>>
    /\ enc.k = <<1, 2>>
    /\ enc.v = <<SentinelByte, 1, SentinelByte>>

\* C9: splitTrieKey(s) splits at the first sentinel: the key holds no
\* sentinel; when s holds a sentinel, key ++ sentinel ++ value is s (so the
\* value is everything after the first sentinel, later sentinels included);
\* when s holds none, the key is s and the value is empty.
C9_SplitAtFirstSentinel ==
    enc.step = "decoded" =>
        LET s == enc.from.trieKey
        IN  /\ ~HasSentinel(enc.k)
            /\ HasSentinel(s) => enc.k \o KV_SEPARATOR \o enc.v = s
            /\ ~HasSentinel(s) => (enc.k = s /\ enc.v = <<>>)

C9_Witness ==
    /\ enc.step = "decoded"
    /\ enc.from.step = "raw"
    /\ enc.from.trieKey = <<1, SentinelByte, SentinelByte>>
    /\ enc.k = <<1>>
    /\ enc.v = <<SentinelByte>>

----------------------------------------------------------------------------
(* C1: Exists *)

----------------------------------------------------------------------------
(* C2: Find *)

\* C2 as stated: for records with sentinel-free keys and every query key k,
\* Find(k) is exactly the multiset of the values of the records with
\* Key = k, one entry per record, in ascending byte-wise order.
C2_FindBagAscending ==
    (OnNew("Find") /\ ValidRecords(records))
    => /\ SameBag(call.ret,
                  ValuesOf(SelectSeq(records, LAMBDA r : r.Key = call.arg)))
       /\ Ascending(call.ret)

\* C2's clauses one at a time, for sentinel-free query keys only.  Neither
\* holds: identical records are stored once, so there is not one entry per
\* record, and a heavier branch is enumerated before a smaller value.
C2_FindOneEntryPerRecord ==
    (OnNew("Find") /\ ValidRecords(records) /\ ~HasSentinel(call.arg))
    => SameBag(call.ret,
               ValuesOf(SelectSeq(records, LAMBDA r : r.Key = call.arg)))

C2_FindAscending ==
    (OnNew("Find") /\ ValidRecords(records) /\ ~HasSentinel(call.arg))
    => Ascending(call.ret)

\* C2 amended: for every sentinel-free query key k, Find(k) holds each
\* distinct value stored under k exactly once and nothing else, in the
\* engine's enumeration order (EngineBefore); it is empty when no record
\* has key k.
C2_FindDistinctValuesEngineOrder ==
    (OnNew("Find") /\ ValidRecords(records) /\ ~HasSentinel(call.arg))
    => call.ret = ValuesOf(EngineSorted(Matching(LAMBDA r : r.Key = call.arg)))

\* three records under one key, two of them identical: the repeated value
\* is returned once and first, ahead of a smaller value
C2_Witness ==
    /\ OnNew("Find")
    /\ ValidRecords(records)
    /\ ~HasSentinel(call.arg)
    /\ Len(records) = 3
    /\ \A i \in DOMAIN records : records[i].Key = call.arg
    /\ Len(call.ret) = 2
    /\ ~Ascending(call.ret)

----------------------------------------------------------------------------
(* C3: KeysStartingWith *)

\* C3 as stated: for records with sentinel-free keys and every prefix p,
\* KeysStartingWith(p) holds r.Key once for every record r whose key starts
\* with p and nothing else, ordered ascending by (key, value).
C3_KeysBagAscending ==
    (OnNew("KeysStartingWith") /\ ValidRecords(records))
    => /\ SameBag(call.ret,
                  KeysOf(SelectSeq(records,
                                   LAMBDA r : StartsWith(r.Key, call.arg))))
       /\ Ascending(call.ret)

\* C3's clauses one at a time, for sentinel-free prefixes only.  Neither
\* holds: identical records are stored once, and "ab" is enumerated before
\* "a" (the sentinel is the largest byte).
C3_KeysOneEntryPerRecord ==
    (OnNew("KeysStartingWith") /\ ValidRecords(records)
        /\ ~HasSentinel(call.arg))
    => SameBag(call.ret,
               KeysOf(SelectSeq(records,
                                LAMBDA r : StartsWith(r.Key, call.arg))))

C3_KeysAscending ==
    (OnNew("KeysStartingWith") /\ ValidRecords(records)
        /\ ~HasSentinel(call.arg))
    => Ascending(call.ret)

\* C3 amended: for every sentinel-free prefix p, KeysStartingWith(p) holds
\* r.Key once for every distinct (key, value) pair of R whose key starts
\* with p and nothing else, in the engine's enumeration order.
C3_KeysDistinctPairsEngineOrder ==
    (OnNew("KeysStartingWith") /\ ValidRecords(records)
        /\ ~HasSentinel(call.arg))
    => call.ret =
          KeysOf(EngineSorted(Matching(LAMBDA r : StartsWith(r.Key, call.arg))))

\* a key with two stored values appears twice, and a longer key is listed
\* before the key it extends
C3_Witness ==
    /\ OnNew("KeysStartingWith")
    /\ ValidRecords(records)
    /\ call.arg = <<1>>
    /\ call.ret = <<<<1, 2>>, <<1, 2>>, <<1>>>>

----------------------------------------------------------------------------
(* C4: Records and the empty store *)

EmptyAnswer ==
    /\ call.op = "Exists" => call.ret = FALSE
    /\ call.op \in {"Find", "KeysStartingWith", "Records"} => call.ret = <<>>

\* C4 as stated: for records with sentinel-free keys, Records() has as many
\* entries as R, the same pairs, in ascending order by (key, value); for
\* the empty R every query answers empty (Exists false).
C4_RecordsBagAscending ==
    /\ (OnNew("Records") /\ ValidRecords(records))
       => /\ SameBag(call.ret, records)
          /\ AscendingRecords(call.ret)
    /\ (call.on = "new" /\ records = <<>>) => EmptyAnswer

\* C4's clauses one at a time.  Neither holds, for the same two reasons.
C4_RecordsOneEntryPerRecord ==
    (OnNew("Records") /\ ValidRecords(records)) => SameBag(call.ret, records)

C4_RecordsAscending ==
    (OnNew("Records") /\ ValidRecords(records)) => AscendingRecords(call.ret)

\* C4 amended: Records() holds each distinct (key, value) pair of R exactly
\* once, in the engine's enumeration order; for the empty R every query
\* answers empty (Exists false).
C4_RecordsDistinctPairsEngineOrder ==
    /\ (OnNew("Records") /\ ValidRecords(records))
       => call.ret = EngineSorted(Matching(LAMBDA r : TRUE))
    /\ (call.on = "new" /\ records = <<>>) => EmptyAnswer

\* a repeated record is stored once, and the heavier key comes first
C4_Witness ==
    /\ OnNew("Records")
    /\ ValidRecords(records)
    /\ Len(records) = 3
    /\ Len(call.ret) = 2
    /\ ~AscendingRecords(call.ret)

----------------------------------------------------------------------------
(* C5: persistence round trip *)

QueryOps == {"Exists", "Find", "KeysStartingWith", "Records"}

\* what a public query answers on a trie
Answer(tr, op, arg) ==
    CASE op = "Exists"           -> Exists(tr, arg).acc
      [] op = "Find"             -> Find(tr, arg).acc
      [] op = "KeysStartingWith" -> KeysStartingWith(tr, arg).acc
      [] op = "Records"          -> Records(tr).acc

----------------------------------------------------------------------------
(* C6, C7: errors *)

\* C6: when some record's key holds the sentinel byte, New surfaces a
\* ValidationError instead of producing a store.
C6_SentinelKeyRejected == ~ValidRecords(records) => pc # "built"

\* C7: no fault of the trie engine during New, Save or NewFromFile escapes
\* to the caller as a panic.
C7_NoFaultEscapes == pc # "panicked"

----------------------------------------------------------------------------
(* C10: queries neither change the store nor depend on earlier calls *)

\* the stored composite keys that start with a search prefix, enumerated
\* from the beginning
FreshMatches(tr, query) ==
    SelectSeq(tr.order, LAMBDA trieKey : StartsWith(trieKey, query))

FreshAnswer(tr, op, arg) ==
    CASE op = "Exists" ->
            FreshMatches(tr, arg \o KV_SEPARATOR) # <<>>
      [] op = "Find" ->
            LET m == FreshMatches(tr, arg \o KV_SEPARATOR)
            IN  [i \in DOMAIN m |-> splitTrieKey(m[i]).v]
      [] op = "KeysStartingWith" ->
            LET m == FreshMatches(tr, arg)
            IN  [i \in DOMAIN m |-> splitTrieKey(m[i]).k]
      [] op = "Records" ->
            LET m == FreshMatches(tr, <<>>)
            IN  [i \in DOMAIN m |-> [Key   |-> splitTrieKey(m[i]).k,
                                     Value |-> splitTrieKey(m[i]).v]]

=============================================================================
